---- MODULE Spec2Model ----
(***************************************************************************)
(* Task engines of docker-machine-api.                                     *)
(*                                                                         *)
(*   variant = "queue" : src/docker_machine_api/cl_api.py                  *)
(*                       (queue.Queue of tasks, polling call(), readers)   *)
(*   variant = "lock"  : src/docker-machine/cl_api.py                      *)
(*                       (task list guarded by a lock, communicate())      *)
(*                                                                         *)
(* Time is counted in seconds since the spawn of the current process.      *)
(***************************************************************************)
EXTENDS Integers, Sequences, FiniteSets, TLC

\* ---------------------------------------------------------------- bounds
MaxTasks == 3          \* tasks the callers schedule in one run
TaskTimeout == 2       \* the timeout the tasks are created with, seconds
MaxLines == 1          \* lines the processes of one run write (both streams)
MaxClears == 1         \* clearErrors() calls of one run
CbTasks == 2           \* tasks of a run in which tasks may have an output_cb
SharedTasks == 2       \* tasks of a run with two DockerMachine instances
BurstTasks == 1        \* tasks of a run whose processes write BurstLines lines
BurstLines == 2        \* lines the processes of such a run write
MaxTextLen == 4        \* characters of a line handed to _format_text
MaxValueLen == 2       \* characters of VALUE in an export line
MaxEnvLines == 2       \* lines of a text handed to _parse_env_text
EnvTasks == 2          \* tasks of a run whose accessors are read

\* ------------------------------------------------------------- constants
None == 0              \* Python None where a task (id >= 1) is expected
NoReturnCode == -1     \* Popen.poll() / _returncode is None
PollInterval == 1      \* time.sleep(1) of the poll loop

Streams == {"stdout", "stderr"}
Lines == {"", "a"}
ExitCodes == {0, 1}
\* 'elapsed' is only compared with the timeout: it saturates above it
MaxElapsed == TaskTimeout + 1
\* DockerMachine instances of the lock-based engine
Machines == {"m1", "m2"}
\* output_cb (lock-based engine: callback) of a task: none, or the callback
\* of tskGetMachineEnv
Callbacks == {"none", "env"}
\* the runs explored: how many tasks the callers schedule, how many lines
\* their processes write, and which output_cb the tasks are created with
Scenarios ==
    {[tasks |-> MaxTasks, lines |-> MaxLines, callbacks |-> {"none"}],
     [tasks |-> CbTasks, lines |-> MaxLines, callbacks |-> Callbacks],
     [tasks |-> BurstTasks, lines |-> BurstLines, callbacks |-> Callbacks]}

ErrFailed == "Task call failed."
ErrTimeout == "Task call timeout."
ErrSpawn == "Popen raised"
NoError == "none"

NoTask == [id |-> None, allowed_to_fail |-> FALSE, timeout |-> 0,
           output_cb |-> "none"]
NoLines == [s \in Streams |-> <<>>]
\* an optional value (None or a value) is <<>> or <<value>>
NoEnv == <<>>
\* a reference to a dictionary: None, or the default of 'env' in __parseEnvText
\* (the only dictionary __parseEnvText is ever given)
NoRef == "None"
DefaultRef == "env.__defaults__"
NoProc == [state |-> "none", code |-> 0, killed |-> FALSE, runtime |-> 0,
           env |-> NoEnv]

VARIABLES
    variant,           \* which engine runs
    nTasks,            \* tasks created so far (ids are 1..nTasks, in creation order)
    started,           \* ids of the tasks whose call() was entered, in order
    outcome,           \* per task id: how its call() ended ("none": not yet)
    taskLimit,         \* tasks the callers schedule in this run
    lineLimit,         \* lines the processes write in this run
    cbKinds,           \* the output_cb the tasks of this run are created with
    instances,         \* the DockerMachine objects constructed (lock-based)
    owner,             \* per task id: the instance it was scheduled on
    \* ---- queue-based engine: DockerMachine
    task_list,         \* _task_list: items of the queue.Queue
    unfinished_tasks,  \* _task_list.unfinished_tasks (put / task_done / join)
    stdout_queue,      \* _stdout_queue
    stderr_queue,      \* _stderr_queue
    qpc,               \* position of _machine_thread
    task,              \* local 'task' of _machine_thread
    error,             \* message of the exception that ended _machine_thread
    cpc,               \* position of the caller thread that uses wait()
    \* ---- queue-based engine: DockerMachineTask / process / readers
    returncode,        \* task._returncode
    elapsed,           \* datetime.now() - _popen_start_time
    proc,              \* the external process of the task
    written,           \* lines the processes have written
    pipe,              \* per stream: lines written and not yet read
    closed,            \* per stream: _stream.closed
    rqueue,            \* per stream: DockerStreamReader._queue
    alive,             \* per stream: reader thread alive
    callbacks,         \* per task id: the output_cb the task was created with
    output,            \* task._output (stays empty without output_cb)
    cb_args,           \* per task id: the texts output_cb was called with
    machine_env,       \* _machine_env
    \* ---- lock-based engine: DockerMachine
    taskList,          \* __taskList
    taskHistory,       \* __taskHistory
    currentTask,       \* per machine: __currentTask
    machineErrorMsg,   \* per machine: task named by __machineErrorMsg, or None
    lpc,               \* per machine: position of __machineThread
    lrun,              \* per machine: the task whose call() the worker is in
    lprocs,            \* tasks whose external process is executing
    lcpc,              \* per machine: position of the caller thread in wait()
    waitResult,        \* per machine: what the last wait() returned
    halted,            \* per machine: a call() raised and clearErrors() was not called since
    nClears,           \* clearErrors() calls so far
    machineLock,       \* per machine: the thread that holds __machineLock, or "free"
    envDefault,        \* the dictionary that is the default of 'env' in __parseEnvText
    machineEnv,        \* per machine: __machineEnv, None or a reference to a dictionary
    envResult,         \* per machine: what the last env() returned, and its items then
    taskListEmpty,     \* per machine: local 'taskListEmpty' of __machineThread
    cbLog,             \* per task (and None): the calls of __taskCallback with it, in order
    \* ---- queue-based engine: the DockerMachine objects of one program
    env_default,       \* the dictionary that is the default of 'env' in _parse_env_text
    machine_env_ref,   \* per machine: _machine_env, None or a reference to a dictionary
    env_returned,      \* per machine: what the last env() returned
    popen_env,         \* per machine: the environment its last Popen was given
    merged,            \* per machine: the (key, value) pairs its env tasks merged
    \* ---- the pure functions, applied to one argument
    text,              \* what readline() returned to _reader_thread
    pushed,            \* the line _reader_thread put on its queue, if any
    input,             \* 'input' of _parse_env_text
    env,               \* 'env' of _parse_env_text
    parsed             \* what _parse_env_text returned, if it has

gvars == <<variant, nTasks, started, outcome>>
qvars == <<task_list, unfinished_tasks, stdout_queue, stderr_queue, qpc, task,
           error, cpc, returncode, elapsed, proc, written, pipe, closed,
           rqueue, alive>>
lvars == <<taskList, taskHistory, currentTask, machineErrorMsg, lpc, lrun,
           lprocs, lcpc, waitResult, halted, nClears, machineLock>>
svars == <<taskLimit, lineLimit, cbKinds, instances>>
cvars == <<callbacks, output, cb_args, machine_env>>
pvars == <<text, pushed, input, env, parsed>>
avars == <<envDefault, machineEnv, envResult, taskListEmpty, cbLog>>
evars == <<env_default, machine_env_ref, env_returned, popen_env, merged>>
vars == <<gvars, qvars, lvars, svars, cvars, pvars, avars, evars, owner>>

\* positions of _machine_thread at which the call() of 'task' is in progress
InCall == {"poll", "sleep", "kill", "finish", "close_stdout", "close_stderr",
           "drain"}

Min(a, b) == IF a < b THEN a ELSE b

Range(f) == {f[i] : i \in DOMAIN f}

\* ------------------------------------------------------------------------
\* strings: a str is the sequence of its characters
\* ------------------------------------------------------------------------

\* str.startswith(prefix)
startswith(s, prefix) ==
    Len(s) >= Len(prefix) /\ SubSeq(s, 1, Len(prefix)) = prefix

\* str.lstrip(chars): drops the leading characters that are in chars
RECURSIVE lstrip(_, _)
lstrip(s, chars) ==
    IF s # <<>> /\ Head(s) \in chars THEN lstrip(Tail(s), chars) ELSE s

\* str.rstrip(chars)
RECURSIVE rstrip(_, _)
rstrip(s, chars) ==
    IF s # <<>> /\ s[Len(s)] \in chars
    THEN rstrip(SubSeq(s, 1, Len(s) - 1), chars)
    ELSE s

\* str.strip(chars)
strip(s, chars) == lstrip(rstrip(s, chars), chars)

\* str.split(sep) with a separator of one character: one word more than
\* there are separators
RECURSIVE split(_, _)
split(s, sep) ==
    IF \A i \in 1..Len(s) : s[i] # sep
    THEN <<s>>
    ELSE LET i == CHOOSE j \in 1..Len(s) :
                      s[j] = sep /\ \A k \in 1..(j - 1) : s[k] # sep
         IN  <<SubSeq(s, 1, i - 1)>> \o split(SubSeq(s, i + 1, Len(s)), sep)

\* str.splitlines(): the lines without their line ends; a line end at the end
\* of the text opens no further line
splitlines(s) ==
    LET parts == split(s, "\n")
    IN  IF parts[Len(parts)] = <<>>
        THEN SubSeq(parts, 1, Len(parts) - 1)
        ELSE parts

\* sep.join(strs)
RECURSIVE join(_, _)
join(strs, sep) ==
    IF strs = <<>> THEN <<>>
    ELSE IF Len(strs) = 1 THEN strs[1]
    ELSE strs[1] \o sep \o join(Tail(strs), sep)

\* ------------------------------------------------------------------------
\* DockerStreamReader._format_text and the push of _reader_thread
\* ------------------------------------------------------------------------

ESC == "ESC"           \* \x1B
CSI == "CSI"           \* \x9B
\* the character classes of ansi_escape, on the characters of the model
ParameterBytes == {"0", "1", "3"}              \* [0-?]
IntermediateBytes == {" "}                     \* [ -\/]
FinalBytes == {"[", "m", "R", "E", "D"}        \* [@-~]

\* length of (\x9B|\x1B\[) at position i of s, 0 when it does not match there
IntroducerLen(s, i) ==
    IF s[i] = CSI THEN 1
    ELSE IF s[i] = ESC /\ i + 1 <= Len(s) /\ s[i + 1] = "[" THEN 2
    ELSE 0

\* the first position from i on whose character is not in class
RECURSIVE SkipClass(_, _, _)
SkipClass(s, i, class) ==
    IF i <= Len(s) /\ s[i] \in class THEN SkipClass(s, i + 1, class) ELSE i

\* position of the last character of the match of ansi_escape that starts at
\* position i of s, 0 when there is none (the three classes are disjoint, so
\* the greedy match is the only one)
MatchEnd(s, i) ==
    IF IntroducerLen(s, i) = 0 THEN 0
    ELSE LET k == SkipClass(s, SkipClass(s, i + IntroducerLen(s, i),
                                         ParameterBytes),
                            IntermediateBytes)
         IN  IF k <= Len(s) /\ s[k] \in FinalBytes THEN k ELSE 0

\* ansi_escape.sub('', s) from position i on: one pass from left to right
RECURSIVE sub(_, _)
sub(s, i) ==
    IF i > Len(s) THEN <<>>
    ELSE IF MatchEnd(s, i) > 0 THEN sub(s, MatchEnd(s, i) + 1)
    ELSE <<s[i]>> \o sub(s, i + 1)

\* _format_text
format_text(t) == sub(t, 1)

\* _reader_thread: 'if text: put(_format_text(text.strip('\n')))'
ReaderPush(t) ==
    IF t # <<>> THEN <<format_text(strip(t, {"\n"}))>> ELSE <<>>

\* ------------------------------------------------------------------------
\* DockerMachine._parse_env_text (the same code as __parseEnvText)
\* ------------------------------------------------------------------------

export == <<"e", "x", "p", "o", "r", "t">>

\* output[key] = value
SetItem(d, key, value) ==
    [k \in DOMAIN d \cup {key} |-> IF k = key THEN value ELSE d[k]]

\* the body of the loop for one line
ParseLine(d, l) ==
    IF startswith(l, export)
    THEN LET words == split(lstrip(l, Range(export)), "=")
         IN  IF Len(words) = 2
             THEN SetItem(d, strip(words[1], {" "}), strip(words[2], {"\"", " "}))
             ELSE d
    ELSE d

\* the loop over the lines
RECURSIVE ParseLines(_, _)
ParseLines(d, ls) ==
    IF ls = <<>> THEN d ELSE ParseLines(ParseLine(d, Head(ls)), Tail(ls))

\* _parse_env_text(input, env)
parse_env_text(inp, e) == ParseLines(e, splitlines(inp))

\* os.environ.copy(), the default of 'env' of _parse_env_text
Environ == [k \in {<<"H">>} |-> <<"h">>]

\* both engines after the construction of their objects, no task scheduled
EngineInit ==
    /\ nTasks = 0
    /\ started = <<>>
    /\ outcome = [t \in 1..MaxTasks |-> "none"]
    /\ task_list = <<>>
    /\ unfinished_tasks = 0
    /\ stdout_queue = <<>>
    /\ stderr_queue = <<>>
    /\ qpc = "get"
    /\ task = NoTask
    /\ error = NoError
    /\ cpc = "idle"
    /\ returncode = NoReturnCode
    /\ elapsed = 0
    /\ proc = NoProc
    /\ written = 0
    /\ pipe = NoLines
    /\ closed = [s \in Streams |-> FALSE]
    /\ rqueue = NoLines
    /\ alive = [s \in Streams |-> FALSE]
    /\ taskList = <<>>
    /\ taskHistory = <<>>
    /\ currentTask = [m \in Machines |-> None]
    /\ machineErrorMsg = [m \in Machines |-> None]
    /\ lpc = [m \in Machines |-> "loop"]
    /\ lrun = [m \in Machines |-> None]
    /\ lprocs = {}
    /\ lcpc = [m \in Machines |-> "idle"]
    /\ waitResult = [m \in Machines |-> None]
    /\ halted = [m \in Machines |-> FALSE]
    /\ nClears = 0
    /\ machineLock = [m \in Machines |-> "free"]
    /\ owner = [t \in 1..MaxTasks |-> "none"]
    /\ callbacks = [t \in 1..MaxTasks |-> "none"]
    /\ output = <<>>
    /\ cb_args = [t \in 1..MaxTasks |-> <<>>]
    /\ machine_env = NoEnv
    /\ envDefault = Environ
    /\ machineEnv = [m \in Machines |-> NoRef]
    /\ envResult = [m \in Machines |-> <<>>]
    /\ taskListEmpty = [m \in Machines |-> FALSE]
    /\ cbLog = [t \in {None} \cup (1..MaxTasks) |-> <<>>]
    /\ env_default = Environ
    /\ machine_env_ref = [m \in Machines |-> NoRef]
    /\ env_returned = [m \in Machines |-> <<>>]
    /\ popen_env = [m \in Machines |-> <<>>]
    /\ merged = [m \in Machines |-> {}]

\* no pure function is under test
PureIdle ==
    /\ text = <<>>
    /\ pushed = <<>>
    /\ input = <<>>
    /\ env = Environ
    /\ parsed = <<>>

Init ==
    /\ variant \in {"queue", "lock"}
    /\ \E sc \in Scenarios :
          /\ taskLimit = sc.tasks
          /\ lineLimit = sc.lines
          /\ cbKinds = sc.callbacks
    \* the lock-based engine has neither lines nor output_cb in the model
    /\ variant = "lock" => (taskLimit = MaxTasks /\ cbKinds = {"none"})
    /\ instances = {"m1"}
    /\ EngineInit
    /\ PureIdle

\* ------------------------------------------------------------------------
\* queue-based engine: external process and the two DockerStreamReaders
\* ------------------------------------------------------------------------

\* the process writes one line to one of its streams
ProcWrite(s, l) ==
    /\ variant = "queue"
    /\ proc.state = "running"
    /\ written < lineLimit
    /\ written' = written + 1
    /\ pipe' = [pipe EXCEPT ![s] = Append(@, l)]
    /\ UNCHANGED <<avars, svars, evars, pvars, cvars, owner, gvars, lvars, task_list, unfinished_tasks, stdout_queue,
                   stderr_queue, qpc, task, error, cpc, returncode, elapsed,
                   proc, closed, rqueue, alive>>

\* the process exits on its own with exit code c
ProcExit(c) ==
    /\ variant = "queue"
    /\ proc.state = "running"
    /\ proc' = [state |-> "exited", code |-> c, killed |-> FALSE,
                runtime |-> elapsed, env |-> proc.env]
    /\ UNCHANGED <<avars, svars, evars, pvars, cvars, owner, gvars, lvars, task_list, unfinished_tasks, stdout_queue,
                   stderr_queue, qpc, task, error, cpc, returncode, elapsed,
                   written, pipe, closed, rqueue, alive>>

\* DockerStreamReader._reader_thread: one readline() that returns a line
ReaderRead(s) ==
    /\ variant = "queue"
    /\ alive[s]
    /\ ~closed[s]
    /\ pipe[s] # <<>>
    /\ rqueue' = [rqueue EXCEPT ![s] = Append(@, Head(pipe[s]))]
    /\ pipe' = [pipe EXCEPT ![s] = Tail(@)]
    /\ UNCHANGED <<avars, svars, evars, pvars, cvars, owner, gvars, lvars, task_list, unfinished_tasks, stdout_queue,
                   stderr_queue, qpc, task, error, cpc, returncode, elapsed,
                   proc, written, closed, alive>>

\* DockerStreamReader._reader_thread: the loop ends once the stream is closed
ReaderStop(s) ==
    /\ variant = "queue"
    /\ alive[s]
    /\ closed[s]
    /\ alive' = [alive EXCEPT ![s] = FALSE]
    /\ UNCHANGED <<avars, svars, evars, pvars, cvars, owner, gvars, lvars, task_list, unfinished_tasks, stdout_queue,
                   stderr_queue, qpc, task, error, cpc, returncode, elapsed,
                   proc, written, pipe, closed, rqueue>>

\* ------------------------------------------------------------------------
\* queue-based engine: DockerMachineTask
\* ------------------------------------------------------------------------

\* mutant: the newest line of the queue is returned
get_line_newest(q) == IF q = <<>> THEN <<>> ELSE <<q[Len(q)]>>

\* DockerStreamReader.get_line: <<line>> or <<>> (None)
get_line(q) == IF q = <<>> THEN <<>> ELSE <<Head(q)>>

\* Python truth value of what get_line returned: None and '' are false
Truthy(got) == got # <<>> /\ got[1] # ""

\* DockerMachineTask._process_output, on the reader queues and the channels
RECURSIVE process_output(_)
process_output(st) ==
    LET stdout == get_line(st.rout)
        stderr == get_line(st.rerr)
        nx == [rout |-> IF stdout # <<>> THEN Tail(st.rout) ELSE st.rout,
               rerr |-> IF stderr # <<>> THEN Tail(st.rerr) ELSE st.rerr,
               cout |-> st.cout \o stdout,
               cerr |-> st.cerr \o stderr,
               out |-> IF st.cap THEN st.out \o stdout \o stderr ELSE st.out,
               cap |-> st.cap]
    IN  IF ~Truthy(stdout) /\ ~Truthy(stderr) THEN nx ELSE process_output(nx)

\* _process_output applied to the current readers and channels
Drained ==
    process_output([rout |-> rqueue["stdout"], rerr |-> rqueue["stderr"],
                    cout |-> stdout_queue, cerr |-> stderr_queue,
                    out |-> output, cap |-> task.output_cb # "none"])

\* Popen.poll()
poll == IF proc.state = "exited" THEN proc.code ELSE NoReturnCode

\* mutant: the process is not awaited, call() returns after the first poll
PollResultNoWait(rc, allowed, el, timeout) ==
    IF rc # NoReturnCode
    THEN IF rc = 0 \/ allowed THEN "finish" ELSE "failed"
    ELSE IF el > timeout THEN "kill" ELSE "task_done"

\* mutant: allowed_to_fail is ignored
PollResultNoAllowed(rc, allowed, el, timeout) ==
    IF rc # NoReturnCode
    THEN IF rc = 0 THEN "finish" ELSE "failed"
    ELSE IF el > timeout THEN "kill" ELSE "sleep"

\* mutant: the timeout is compared with >= instead of >
PollResultGe(rc, allowed, el, timeout) ==
    IF rc # NoReturnCode
    THEN IF rc = 0 \/ allowed THEN "finish" ELSE "failed"
    ELSE IF el >= timeout THEN "kill" ELSE "sleep"

\* mutant: a task that is allowed to fail is not timed out
PollResultAllowedNoTimeout(rc, allowed, el, timeout) ==
    IF rc # NoReturnCode
    THEN IF rc = 0 \/ allowed THEN "finish" ELSE "failed"
    ELSE IF el > timeout /\ ~allowed THEN "kill" ELSE "sleep"

\* DockerMachineTask.call: what one iteration of the poll loop decides
PollResult(rc, allowed, el, timeout) ==
    IF rc # NoReturnCode
    THEN IF rc = 0 \/ allowed THEN "finish" ELSE "failed"
    ELSE IF el > timeout THEN "kill" ELSE "sleep"

\* mutant: the process is not killed
KillNothing(p, el) == p

\* Popen.kill(): ends a process that still runs
Kill(p, el) ==
    IF p.state = "running"
    THEN [state |-> "exited", code |-> 1, killed |-> TRUE, runtime |-> el,
          env |-> p.env]
    ELSE p

\* how call() ends after _finish_output: break (success) or the timeout error
FinishResult(rc) == IF rc # NoReturnCode THEN "succeeded" ELSE "timeout"

\* the characters of a line of the model: "" or the one character of the line
Chars(l) == IF l = "" THEN <<>> ELSE <<l>>

\* os.linesep.join(self._output)
JoinedOutput(out) == join([i \in 1..Len(out) |-> Chars(out[i])], <<"\n">>)

\* mutant: output_cb is called however call() ends
CallsBackAlways(cb, r) == cb # "none"

\* 'if self._output_cb:' on the branch of the exit codes that count as success
CallsBack(cb, r) == cb # "none" /\ r = "succeeded"

\* mutant: the callback does not store the map
EnvCallbackDropped(txt) == NoEnv

\* cb(text) of tskGetMachineEnv: self._machine_env = self._parse_env_text(text)
EnvCallback(txt) == <<parse_env_text(txt, Environ)>>

\* ------------------------------------------------------------------------
\* queue-based engine: DockerMachine._machine_thread
\* ------------------------------------------------------------------------

\* mutant: the newest item is taken (a LIFO queue)
GetNewest(q) == q[Len(q)]

\* Queue.get(): the oldest item
Get(q) == Head(q)

\* task = self._task_list.get(timeout=1), a task is there
\* (with no task there, get raises queue.Empty after 1 s and the loop repeats:
\*  no change of state)
QGet ==
    /\ variant = "queue"
    /\ qpc = "get"
    /\ task_list # <<>>
    /\ task' = Get(task_list)
    /\ task_list' = Tail(task_list)
    /\ qpc' = "spawn"
    /\ UNCHANGED <<avars, svars, evars, pvars, cvars, owner, gvars, lvars, unfinished_tasks, stdout_queue, stderr_queue,
                   error, cpc, returncode, elapsed, proc, written, pipe, closed,
                   rqueue, alive>>

\* call(): Popen, the two readers, the start time
QSpawn ==
    /\ variant = "queue"
    /\ qpc = "spawn"
    /\ started' = Append(started, task.id)
    /\ \/ /\ proc' = [state |-> "running", code |-> 0, killed |-> FALSE,
                      runtime |-> 0, env |-> machine_env]
          /\ pipe' = NoLines
          /\ rqueue' = NoLines
          /\ closed' = [s \in Streams |-> FALSE]
          /\ alive' = [s \in Streams |-> TRUE]
          /\ elapsed' = 0
          /\ returncode' = NoReturnCode
          /\ qpc' = "poll"
          /\ UNCHANGED <<error, outcome>>
       \/ \* Popen raises: the exception leaves call() and ends the thread
          /\ qpc' = "dead"
          /\ error' = ErrSpawn
          /\ outcome' = [outcome EXCEPT ![task.id] = "spawn"]
          /\ UNCHANGED <<proc, pipe, rqueue, closed, alive, elapsed, returncode>>
    /\ UNCHANGED <<avars, svars, evars, pvars, cvars, owner, variant, nTasks, lvars, task_list, unfinished_tasks,
                   stdout_queue, stderr_queue, task, cpc, written>>

\* mutant: _machine_thread logs the exception of call() without re-raising
\* it: task_done() is called and the loop goes on
QPollNoReraise ==
    /\ variant = "queue"
    /\ qpc = "poll"
    /\ LET d == Drained
           r == PollResult(poll, task.allowed_to_fail, elapsed, task.timeout)
       IN  /\ rqueue' = [stdout |-> d.rout, stderr |-> d.rerr]
           /\ stdout_queue' = d.cout
           /\ stderr_queue' = d.cerr
           /\ returncode' = poll
           /\ qpc' = IF r = "failed" THEN "task_done" ELSE r
           /\ error' = IF r = "failed" THEN ErrFailed ELSE error
           /\ outcome' = IF r = "failed"
                         THEN [outcome EXCEPT ![task.id] = "failed"]
                         ELSE outcome
           /\ output' = d.out
    /\ UNCHANGED <<avars, svars, evars, pvars, callbacks, cb_args, machine_env, owner, variant, nTasks, started, lvars, task_list,
                   unfinished_tasks, task, cpc, elapsed, proc, written, pipe,
                   closed, alive>>

\* call(): one iteration of the poll loop up to its decision; 'Task call
\* failed.' leaves call() and, re-raised, ends the thread
QPoll ==
    /\ variant = "queue"
    /\ qpc = "poll"
    /\ LET d == Drained
           r == PollResult(poll, task.allowed_to_fail, elapsed, task.timeout)
       IN  /\ rqueue' = [stdout |-> d.rout, stderr |-> d.rerr]
           /\ stdout_queue' = d.cout
           /\ stderr_queue' = d.cerr
           /\ returncode' = poll
           /\ qpc' = IF r = "failed" THEN "dead" ELSE r
           /\ error' = IF r = "failed" THEN ErrFailed ELSE error
           /\ outcome' = IF r = "failed"
                         THEN [outcome EXCEPT ![task.id] = "failed"]
                         ELSE outcome
           /\ output' = d.out
    /\ UNCHANGED <<avars, svars, evars, pvars, callbacks, cb_args, machine_env, owner, variant, nTasks, started, lvars, task_list,
                   unfinished_tasks, task, cpc, elapsed, proc, written, pipe,
                   closed, alive>>

\* call(): time.sleep(1) at the end of an iteration
QSleep ==
    /\ variant = "queue"
    /\ qpc = "sleep"
    /\ elapsed' = Min(elapsed + PollInterval, MaxElapsed)
    /\ qpc' = "poll"
    /\ UNCHANGED <<avars, svars, evars, pvars, cvars, owner, gvars, lvars, task_list, unfinished_tasks, stdout_queue,
                   stderr_queue, task, error, cpc, returncode, proc, written,
                   pipe, closed, rqueue, alive>>

\* call(): self._process.kill() on timeout
QKill ==
    /\ variant = "queue"
    /\ qpc = "kill"
    /\ proc' = Kill(proc, elapsed)
    /\ qpc' = "finish"
    /\ UNCHANGED <<avars, svars, evars, pvars, cvars, owner, gvars, lvars, task_list, unfinished_tasks, stdout_queue,
                   stderr_queue, task, error, cpc, returncode, elapsed, written,
                   pipe, closed, rqueue, alive>>

\* _finish_output: self._process.wait() returns once the process has ended
QFinishWait ==
    /\ variant = "queue"
    /\ qpc = "finish"
    /\ proc.state = "exited"
    /\ qpc' = "close_stdout"
    /\ UNCHANGED <<avars, svars, evars, pvars, cvars, owner, gvars, lvars, task_list, unfinished_tasks, stdout_queue,
                   stderr_queue, task, error, cpc, returncode, elapsed, proc,
                   written, pipe, closed, rqueue, alive>>

\* DockerStreamReader.wait: close the stream, join the thread for at most 2 s
\* (the worker goes on whether or not the thread has ended by then)
ReaderWait(s, next) ==
    /\ closed' = [closed EXCEPT ![s] = TRUE]
    /\ qpc' = next
    /\ UNCHANGED <<avars, svars, evars, pvars, cvars, owner, gvars, lvars, task_list, unfinished_tasks, stdout_queue,
                   stderr_queue, task, error, cpc, returncode, elapsed, proc,
                   written, pipe, rqueue, alive>>

\* _finish_output: self._stdout_reader.wait()
QCloseStdout ==
    /\ variant = "queue"
    /\ qpc = "close_stdout"
    /\ ReaderWait("stdout", "close_stderr")

\* _finish_output: self._stderr_reader.wait()
QCloseStderr ==
    /\ variant = "queue"
    /\ qpc = "close_stderr"
    /\ ReaderWait("stderr", "drain")

\* _finish_output: the last _process_output; then call() ends: it returns
\* (break) or raises 'Task call timeout.', which ends the thread
QFinalDrain ==
    /\ variant = "queue"
    /\ qpc = "drain"
    /\ LET d == Drained
           r == FinishResult(returncode)
       IN  /\ rqueue' = [stdout |-> d.rout, stderr |-> d.rerr]
           /\ stdout_queue' = d.cout
           /\ stderr_queue' = d.cerr
           /\ qpc' = IF r = "timeout" THEN "dead" ELSE "task_done"
           /\ error' = IF r = "timeout" THEN ErrTimeout ELSE error
           /\ outcome' = [outcome EXCEPT ![task.id] = r]
           /\ output' = d.out
           /\ IF CallsBack(task.output_cb, r)
              THEN /\ cb_args' = [cb_args EXCEPT
                                    ![task.id] = Append(@, JoinedOutput(d.out))]
                   /\ machine_env' = IF task.output_cb = "env"
                                     THEN EnvCallback(JoinedOutput(d.out))
                                     ELSE machine_env
              ELSE UNCHANGED <<cb_args, machine_env>>
    /\ UNCHANGED <<avars, svars, evars, pvars, callbacks, owner, variant, nTasks, started, lvars, task_list,
                   unfinished_tasks, task, cpc, returncode, elapsed, proc,
                   written, pipe, closed, alive>>

\* self._task_list.task_done(); the loop starts over
QTaskDone ==
    /\ variant = "queue"
    /\ qpc = "task_done"
    /\ unfinished_tasks' = unfinished_tasks - 1
    \* the task object, with its process and its readers' queues, is dropped
    /\ task' = NoTask
    /\ returncode' = NoReturnCode
    /\ elapsed' = 0
    /\ proc' = NoProc
    /\ pipe' = NoLines
    /\ rqueue' = NoLines
    /\ output' = <<>>
    /\ qpc' = "get"
    /\ UNCHANGED <<avars, svars, evars, pvars, callbacks, cb_args, machine_env, owner, gvars, lvars, task_list, stdout_queue, stderr_queue, error,
                   cpc, written, closed, alive>>

\* ------------------------------------------------------------------------
\* queue-based engine: caller threads
\* ------------------------------------------------------------------------

\* add_task(DockerMachineTask(...)): Queue.put
add_task(allowed, timeout, cb) ==
    /\ variant = "queue"
    /\ nTasks < taskLimit
    /\ nTasks' = nTasks + 1
    /\ task_list' = Append(task_list, [id |-> nTasks + 1,
                                       allowed_to_fail |-> allowed,
                                       timeout |-> timeout,
                                       output_cb |-> cb])
    /\ unfinished_tasks' = unfinished_tasks + 1
    /\ callbacks' = [callbacks EXCEPT ![nTasks + 1] = cb]
    /\ UNCHANGED <<avars, svars, evars, pvars, output, cb_args, machine_env, owner, variant, started, outcome, lvars, stdout_queue,
                   stderr_queue, qpc, task, error, cpc, returncode, elapsed,
                   proc, written, pipe, closed, rqueue, alive>>

\* wait() is called: self._task_list.join()
QWaitCall ==
    /\ variant = "queue"
    /\ cpc = "idle"
    /\ cpc' = "join"
    /\ UNCHANGED <<avars, svars, evars, pvars, cvars, owner, gvars, lvars, task_list, unfinished_tasks, stdout_queue,
                   stderr_queue, qpc, task, error, returncode, elapsed, proc,
                   written, pipe, closed, rqueue, alive>>

\* Queue.join() returns when no put() item is left without its task_done()
JoinReturns(unfinished) == unfinished = 0

\* wait() returns
QWaitReturn ==
    /\ variant = "queue"
    /\ cpc = "join"
    /\ JoinReturns(unfinished_tasks)
    /\ cpc' = "idle"
    /\ UNCHANGED <<avars, svars, evars, pvars, cvars, owner, gvars, lvars, task_list, unfinished_tasks, stdout_queue,
                   stderr_queue, qpc, task, error, returncode, elapsed, proc,
                   written, pipe, closed, rqueue, alive>>

QWorker ==
    \/ QGet \/ QSpawn \/ QPoll \/ QSleep \/ QKill \/ QFinishWait
    \/ QCloseStdout \/ QCloseStderr \/ QFinalDrain \/ QTaskDone

QNext ==
    \/ QWorker
    \/ \E a \in BOOLEAN, cb \in cbKinds : add_task(a, TaskTimeout, cb)
    \/ QWaitCall
    \/ QWaitReturn
    \/ \E s \in Streams, l \in Lines : ProcWrite(s, l)
    \/ \E c \in ExitCodes : ProcExit(c)
    \/ \E s \in Streams : ReaderRead(s)
    \/ \E s \in Streams : ReaderStop(s)

\* ------------------------------------------------------------------------
\* lock-based engine: DockerMachine.__machineThread
\* ------------------------------------------------------------------------

\* the threads that use the lock of an instance: its worker thread and the
\* threads of the callers
Threads == {"worker", "caller"}

\* mutant: the lock is acquired and not released at the end of the block
ReleaseNever(m) == machineLock

\* the end of a 'with self.__machineLock' block: the lock is released
Release(m) == [machineLock EXCEPT ![m] = "free"]

\* a 'with self.__machineLock' block run by thread th: it is entered with the
\* lock free (acquired in the same step) or acquired by th in an earlier
\* step, and ends with the release
WithLock(m, th) ==
    /\ machineLock[m] \in {"free", th}
    /\ machineLock' = Release(m)


\* mutant: the current task is not looked at
TakesTaskAlways(cur, list) == Len(list) > 0

\* 'if not self.__currentTask: if len(self.__taskList) > 0'
TakesTask(cur, list) == cur = None /\ Len(list) > 0

\* self.__taskList[0]
FirstTask(list) == Head(list)

\* the locked block at the top of the loop
LTake(m) ==
    /\ variant = "lock"
    /\ m \in instances
    /\ WithLock(m, "worker")
    /\ lpc[m] = "loop"
    /\ IF TakesTask(currentTask[m], taskList)
       THEN /\ machineErrorMsg' = [machineErrorMsg EXCEPT ![m] = None]
            /\ currentTask' = [currentTask EXCEPT ![m] = FirstTask(taskList)]
            /\ taskList' = Tail(taskList)
            /\ taskHistory' = Append(taskHistory, FirstTask(taskList))
            /\ lpc' = [lpc EXCEPT ![m] = "start"]
       ELSE /\ lpc' = [lpc EXCEPT ![m] = "sleep"]
            /\ UNCHANGED <<machineErrorMsg, currentTask, taskList, taskHistory>>
    \* taskListEmpty = len(self.__taskList) == 0, after the pop
    /\ taskListEmpty' = [taskListEmpty EXCEPT ![m] = (taskList' = <<>>)]
    /\ UNCHANGED <<envDefault, machineEnv, envResult, cbLog, svars, evars, pvars, cvars, owner, gvars, qvars, lrun, lprocs, lcpc, waitResult, halted,
                   nClears>>

\* self.__taskCallback(machine=self, task=self.__currentTask, state=...,
\* final=taskListEmpty): the call is recorded
TaskCallback(m, state) ==
    [cbLog EXCEPT ![currentTask[m]] =
        Append(@, [state |-> state, final |-> taskListEmpty[m]])]

\* the callback with state='start', first statement of the try block
LStart(m) ==
    /\ variant = "lock"
    /\ m \in instances
    /\ UNCHANGED machineLock
    /\ lpc[m] = "start"
    /\ cbLog' = TaskCallback(m, "start")
    /\ lpc' = [lpc EXCEPT ![m] = "call"]
    /\ UNCHANGED <<envDefault, machineEnv, envResult, taskListEmpty, svars, evars, pvars, cvars, owner, gvars, qvars,
                   taskList, taskHistory, currentTask, machineErrorMsg, lrun,
                   lprocs, lcpc, waitResult, halted, nClears>>

\* mutant: an exception of Popen is not caught, it ends the worker thread
LCallSpawnEndsThread(m) ==
    /\ variant = "lock"
    /\ m \in instances
    /\ UNCHANGED machineLock
    /\ lpc[m] = "call"
    /\ IF currentTask[m] = None
       THEN \* clearErrors() ran in between: None has no call()
            /\ lpc' = [lpc EXCEPT ![m] = "except"]
            /\ UNCHANGED <<started, outcome, lrun, lprocs, halted>>
       ELSE /\ started' = Append(started, currentTask[m])
            /\ \/ /\ lrun' = [lrun EXCEPT ![m] = currentTask[m]]
                  /\ lprocs' = lprocs \cup {currentTask[m]}
                  /\ lpc' = [lpc EXCEPT ![m] = "communicate"]
                  /\ UNCHANGED <<outcome, halted>>
               \/ \* Popen raises
                  /\ outcome' = [outcome EXCEPT ![currentTask[m]] = "spawn"]
                  /\ halted' = [halted EXCEPT ![m] = TRUE]
                  /\ lpc' = [lpc EXCEPT ![m] = "dead"]
                  /\ UNCHANGED <<lrun, lprocs>>
    /\ UNCHANGED <<avars, svars, evars, pvars, cvars, owner, variant, nTasks, qvars, taskList, taskHistory, currentTask,
                   machineErrorMsg, lcpc, waitResult, nClears>>

\* self.__currentTask.call(env=...): call() is entered and Popen runs
LCall(m) ==
    /\ variant = "lock"
    /\ m \in instances
    /\ UNCHANGED machineLock
    /\ lpc[m] = "call"
    /\ IF currentTask[m] = None
       THEN \* clearErrors() ran in between: None has no call()
            /\ lpc' = [lpc EXCEPT ![m] = "except"]
            /\ UNCHANGED <<started, outcome, lrun, lprocs, halted>>
       ELSE /\ started' = Append(started, currentTask[m])
            /\ \/ /\ lrun' = [lrun EXCEPT ![m] = currentTask[m]]
                  /\ lprocs' = lprocs \cup {currentTask[m]}
                  /\ lpc' = [lpc EXCEPT ![m] = "communicate"]
                  /\ UNCHANGED <<outcome, halted>>
               \/ \* Popen raises
                  /\ outcome' = [outcome EXCEPT ![currentTask[m]] = "spawn"]
                  /\ halted' = [halted EXCEPT ![m] = TRUE]
                  /\ lpc' = [lpc EXCEPT ![m] = "except"]
                  /\ UNCHANGED <<lrun, lprocs>>
    /\ UNCHANGED <<avars, svars, evars, pvars, cvars, owner, variant, nTasks, qvars, taskList, taskHistory, currentTask,
                   machineErrorMsg, lcpc, waitResult, nClears>>

\* __parseEnvText: the same parsing as _parse_env_text of the queue-based
\* engine; 'output = env' is updated in place and returned
parseEnvText(inp, e) == ParseLines(e, splitlines(inp))

\* what 'docker-machine env' prints, as far as the runs go
EnvOutputs ==
    {export \o <<" ", "A", "=", "\"", "b", "\"">>,
     export \o <<" ", "H", "=", "\"", "b", "\"">>}

\* call(): communicate() returns, the process has exited with code c, and
\* the task's callback runs; a non-zero code raises
LCommunicate(m, c) ==
    /\ variant = "lock"
    /\ m \in instances
    /\ lpc[m] = "communicate"
    /\ lprocs' = lprocs \ {lrun[m]}
    /\ outcome' = [outcome EXCEPT
                     ![lrun[m]] = IF c = 0 THEN "succeeded" ELSE "failed"]
    /\ lrun' = [lrun EXCEPT ![m] = None]
    /\ halted' = IF c = 0 THEN halted ELSE [halted EXCEPT ![m] = TRUE]
    /\ lpc' = [lpc EXCEPT ![m] = IF c = 0 THEN "success" ELSE "except"]
    \* self.callback(self): cb of tskGetMachineEnv, 'if task.returncode == 0:
    \* with self.__machineLock'
    /\ IF callbacks[lrun[m]] = "env" /\ c = 0
       THEN /\ WithLock(m, "worker")
            /\ \E stdout \in EnvOutputs :
                  /\ envDefault' = parseEnvText(stdout, envDefault)
                  /\ machineEnv' = [machineEnv EXCEPT ![m] = DefaultRef]
       ELSE UNCHANGED <<envDefault, machineEnv, machineLock>>
    /\ UNCHANGED <<envResult, taskListEmpty, cbLog, svars, evars, pvars, cvars, owner, variant, nTasks, started, qvars, taskList, taskHistory,
                   currentTask, machineErrorMsg, lcpc, waitResult, nClears>>

\* call(): communicate(timeout=...) raises subprocess.TimeoutExpired, which
\* 'except TimeoutError' does not catch: it leaves call(), the process runs on
LTimeoutExpired(m) ==
    /\ variant = "lock"
    /\ m \in instances
    /\ UNCHANGED machineLock
    /\ lpc[m] = "communicate"
    /\ outcome' = [outcome EXCEPT ![lrun[m]] = "timeout"]
    /\ lrun' = [lrun EXCEPT ![m] = None]
    /\ halted' = [halted EXCEPT ![m] = TRUE]
    /\ lpc' = [lpc EXCEPT ![m] = "except"]
    /\ UNCHANGED <<avars, svars, evars, pvars, cvars, owner, variant, nTasks, started, qvars, taskList, taskHistory,
                   currentTask, machineErrorMsg, lprocs, lcpc, waitResult,
                   nClears>>

\* after call() returned: the callback with state='success', then
\* self.__currentTask = None
LSuccess(m) ==
    /\ variant = "lock"
    /\ m \in instances
    /\ UNCHANGED machineLock
    /\ lpc[m] = "success"
    /\ cbLog' = TaskCallback(m, "success")
    /\ currentTask' = [currentTask EXCEPT ![m] = None]
    /\ lpc' = [lpc EXCEPT ![m] = "sleep"]
    /\ UNCHANGED <<envDefault, machineEnv, envResult, taskListEmpty, svars, evars, pvars, cvars, owner, gvars, qvars, taskList, taskHistory, machineErrorMsg, lrun,
                   lprocs, lcpc, waitResult, halted, nClears>>

\* 'except Exception as e': the locked block; the message names
\* self.__currentTask.name; with __currentTask None that raises AttributeError
\* and the thread ends
LExcept(m) ==
    /\ variant = "lock"
    /\ m \in instances
    /\ WithLock(m, "worker")
    /\ lpc[m] = "except"
    /\ IF currentTask[m] = None
       THEN /\ lpc' = [lpc EXCEPT ![m] = "dead"]
            /\ UNCHANGED <<machineErrorMsg, currentTask>>
       ELSE /\ machineErrorMsg' = [machineErrorMsg EXCEPT ![m] = currentTask[m]]
            /\ lpc' = [lpc EXCEPT ![m] = "error"]
            /\ UNCHANGED currentTask
    /\ UNCHANGED <<avars, svars, evars, pvars, cvars, owner, gvars, qvars, taskList, taskHistory, lrun, lprocs, lcpc,
                   waitResult, halted, nClears>>

\* the callback with state='error', after the locked block
LError(m) ==
    /\ variant = "lock"
    /\ m \in instances
    /\ UNCHANGED machineLock
    /\ lpc[m] = "error"
    /\ cbLog' = TaskCallback(m, "error")
    /\ lpc' = [lpc EXCEPT ![m] = "sleep"]
    /\ UNCHANGED <<envDefault, machineEnv, envResult, taskListEmpty, svars, evars, pvars, cvars, owner, gvars, qvars,
                   taskList, taskHistory, currentTask, machineErrorMsg, lrun,
                   lprocs, lcpc, waitResult, halted, nClears>>

\* mutant: the worker drops the error message at the end of an iteration
LSleepClearsError(m) ==
    /\ variant = "lock"
    /\ m \in instances
    /\ UNCHANGED machineLock
    /\ lpc[m] = "sleep"
    /\ lpc' = [lpc EXCEPT ![m] = "loop"]
    /\ machineErrorMsg' = [machineErrorMsg EXCEPT ![m] = None]
    /\ UNCHANGED <<avars, svars, evars, pvars, cvars, owner, gvars, qvars, taskList, taskHistory, currentTask,
                   lrun, lprocs, lcpc, waitResult, halted, nClears>>

\* time.sleep(1) at the end of the loop
LSleep(m) ==
    /\ variant = "lock"
    /\ m \in instances
    /\ UNCHANGED machineLock
    /\ lpc[m] = "sleep"
    /\ lpc' = [lpc EXCEPT ![m] = "loop"]
    /\ UNCHANGED <<avars, svars, evars, pvars, cvars, owner, gvars, qvars, taskList, taskHistory, currentTask,
                   machineErrorMsg, lrun, lprocs, lcpc, waitResult, halted,
                   nClears>>

\* a process that call() left running exits on its own
OrphanExit(t) ==
    /\ variant = "lock"
    /\ t \in lprocs
    /\ \A m \in Machines : lrun[m] # t
    /\ UNCHANGED machineLock
    /\ lprocs' = lprocs \ {t}
    /\ UNCHANGED <<avars, svars, evars, pvars, cvars, owner, gvars, qvars, taskList, taskHistory, currentTask,
                   machineErrorMsg, lpc, lrun, lcpc, waitResult, halted,
                   nClears>>

\* ------------------------------------------------------------------------
\* lock-based engine: caller threads
\* ------------------------------------------------------------------------

\* tsk*(): __addTask of a task with the callback cb
addTask(m, cb) ==
    /\ variant = "lock"
    /\ m \in instances
    /\ WithLock(m, "caller")
    /\ cb \in cbKinds
    /\ nTasks < taskLimit
    /\ nTasks' = nTasks + 1
    /\ taskList' = Append(taskList, nTasks + 1)
    /\ owner' = [owner EXCEPT ![nTasks + 1] = m]
    /\ callbacks' = [callbacks EXCEPT ![nTasks + 1] = cb]
    /\ UNCHANGED <<avars, svars, evars, pvars, output, cb_args, machine_env, variant, started, outcome, qvars, taskHistory, currentTask,
                   machineErrorMsg, lpc, lrun, lprocs, lcpc, waitResult,
                   halted, nClears>>

\* mutant: the task that failed is put back at the head of the task list
clearErrorsRetries(m) ==
    /\ variant = "lock"
    /\ m \in instances
    /\ WithLock(m, "caller")
    /\ nClears < MaxClears
    /\ nClears' = nClears + 1
    /\ taskList' = IF currentTask[m] # None /\ halted[m]
                   THEN <<currentTask[m]>> \o taskList
                   ELSE taskList
    /\ currentTask' = [currentTask EXCEPT ![m] = None]
    /\ machineErrorMsg' = [machineErrorMsg EXCEPT ![m] = None]
    /\ halted' = [halted EXCEPT ![m] = FALSE]
    /\ UNCHANGED <<avars, svars, evars, pvars, cvars, owner, gvars, qvars, taskHistory, lpc,
                   lrun, lprocs, lcpc, waitResult>>

\* mutant: only the message is cleared, __currentTask is kept
clearErrorsKeepsTask(m) ==
    /\ variant = "lock"
    /\ m \in instances
    /\ WithLock(m, "caller")
    /\ nClears < MaxClears
    /\ nClears' = nClears + 1
    /\ machineErrorMsg' = [machineErrorMsg EXCEPT ![m] = None]
    /\ halted' = [halted EXCEPT ![m] = FALSE]
    /\ UNCHANGED <<avars, svars, evars, pvars, cvars, owner, gvars, qvars, taskList, taskHistory, currentTask, lpc, lrun,
                   lprocs, lcpc, waitResult>>

\* clearErrors()
clearErrors(m) ==
    /\ variant = "lock"
    /\ m \in instances
    /\ WithLock(m, "caller")
    /\ nClears < MaxClears
    /\ nClears' = nClears + 1
    /\ currentTask' = [currentTask EXCEPT ![m] = None]
    /\ machineErrorMsg' = [machineErrorMsg EXCEPT ![m] = None]
    /\ halted' = [halted EXCEPT ![m] = FALSE]
    /\ UNCHANGED <<avars, svars, evars, pvars, cvars, owner, gvars, qvars, taskList, taskHistory, lpc, lrun, lprocs,
                   lcpc, waitResult>>

\* wait() is called
LWaitCall(m) ==
    /\ variant = "lock"
    /\ m \in instances
    /\ UNCHANGED machineLock
    /\ lcpc[m] = "idle"
    /\ lcpc' = [lcpc EXCEPT ![m] = "wait"]
    /\ UNCHANGED <<avars, svars, evars, pvars, cvars, owner, gvars, qvars, taskList, taskHistory, currentTask,
                   machineErrorMsg, lpc, lrun, lprocs, waitResult, halted,
                   nClears>>

\* one locked check of wait(): "none" (return None), "error" (return the
\* message) or "sleep" (try again a second later)
WaitDecision(list, cur, err) ==
    IF Len(list) = 0 /\ cur = None THEN "none"
    ELSE IF err # None THEN "error"
    ELSE "sleep"

\* wait() returns
LWaitReturn(m) ==
    /\ variant = "lock"
    /\ m \in instances
    /\ WithLock(m, "caller")
    /\ lcpc[m] = "wait"
    /\ WaitDecision(taskList, currentTask[m], machineErrorMsg[m]) # "sleep"
    /\ waitResult' = [waitResult EXCEPT ![m] =
          IF WaitDecision(taskList, currentTask[m], machineErrorMsg[m]) = "none"
          THEN None ELSE machineErrorMsg[m]]
    /\ lcpc' = [lcpc EXCEPT ![m] = "idle"]
    /\ UNCHANGED <<avars, svars, evars, pvars, cvars, owner, gvars, qvars, taskList, taskHistory, currentTask,
                   machineErrorMsg, lpc, lrun, lprocs, halted, nClears>>

\* the items of the dictionary a reference points to (None for None)
Items(ref) == IF ref = NoRef THEN NoEnv ELSE <<envDefault>>

\* env(): 'return self.__machineEnv' under the lock: the reference itself
LEnv(m) ==
    /\ variant = "lock"
    /\ m \in instances
    /\ WithLock(m, "caller")
    /\ envResult' = [envResult EXCEPT
                       ![m] = <<[ref |-> machineEnv[m],
                                 items |-> Items(machineEnv[m])]>>]
    /\ UNCHANGED <<envDefault, machineEnv, taskListEmpty, cbLog, svars, evars, pvars,
                   cvars, owner, gvars, qvars, taskList, taskHistory,
                   currentTask, machineErrorMsg, lpc, lrun, lprocs, lcpc,
                   waitResult, halted, nClears>>

\* the worker thread of instance m, started by its __init__
LWorker(m) ==
    \/ LTake(m) \/ LStart(m) \/ LCall(m)
    \/ (\E c \in ExitCodes : LCommunicate(m, c))
    \/ LTimeoutExpired(m) \/ LSuccess(m) \/ LExcept(m) \/ LError(m)
    \/ LSleep(m)

LNext ==
    \/ \E m \in Machines : LWorker(m)
    \/ \E m \in Machines, cb \in Callbacks : addTask(m, cb)
    \/ \E m \in Machines : clearErrors(m)
    \/ \E m \in Machines : LWaitCall(m)
    \/ \E m \in Machines : LWaitReturn(m)
    \/ \E t \in 1..MaxTasks : OrphanExit(t)

\* history(): the tasks of self.__taskHistory
history(m) == taskHistory

Next == QNext \/ LNext

Spec == Init /\ [][Next]_vars

\* the runs of up to MaxTasks tasks without output_cb
PlainInit == Init /\ taskLimit = MaxTasks /\ cbKinds = {"none"}

\* The worker threads are scheduled again and again; a caller whose join() can
\* return does return.  Nothing makes a process exit, a caller call, or a
\* reader thread run.
FairSpec ==
    /\ PlainInit /\ [][Next]_vars
    /\ WF_vars(QWorker)
    /\ WF_vars(QWaitReturn)
    /\ \A m \in Machines : WF_vars(LWorker(m))

\* a program that constructs two DockerMachine objects of the lock-based
\* engine: __taskList and __taskHistory are attributes of the class, the lock
\* and __currentTask belong to each object
SharedInit ==
    /\ variant = "lock"
    /\ taskLimit = SharedTasks
    /\ lineLimit = MaxLines
    /\ cbKinds = {"none"}
    /\ instances = Machines
    /\ EngineInit
    /\ PureIdle

SharedSpec == SharedInit /\ [][LNext]_vars

\* a program that schedules tskGetMachineEnv and other tasks on one
\* DockerMachine of the lock-based engine and reads env()
AccessorInit ==
    /\ variant = "lock"
    /\ taskLimit = EnvTasks
    /\ lineLimit = MaxLines
    /\ cbKinds = Callbacks
    /\ instances = {"m1"}
    /\ EngineInit
    /\ PureIdle

AccessorNext == LNext \/ \E m \in Machines : LEnv(m)

AccessorSpec == AccessorInit /\ [][AccessorNext]_vars

\* the statements at which thread th of instance m enters a 'with
\* self.__machineLock' block: the worker at the top of its loop and in its
\* 'except' clause; a caller in __addTask, wait(), clearErrors() and the
\* accessors, which it may call at any time
AtWith(m, th) ==
    \/ th = "worker" /\ lpc[m] \in {"loop", "except"}
    \/ th = "caller"

\* threading.Lock.acquire() on entering a block: it returns once the lock is
\* free; the block itself is a later step of the thread
acquire(m, th) ==
    /\ variant = "lock"
    /\ m \in instances
    /\ AtWith(m, th)
    /\ machineLock[m] = "free"
    /\ machineLock' = [machineLock EXCEPT ![m] = th]
    /\ UNCHANGED <<avars, svars, evars, pvars, cvars, owner, gvars, qvars, taskList,
                   taskHistory, currentTask, machineErrorMsg, lpc, lrun,
                   lprocs, lcpc, waitResult, halted, nClears>>

\* one locked check of wait() that neither returns: the lock is released and
\* the caller sleeps for a second
LWaitSleep(m) ==
    /\ variant = "lock"
    /\ m \in instances
    /\ WithLock(m, "caller")
    /\ lcpc[m] = "wait"
    /\ WaitDecision(taskList, currentTask[m], machineErrorMsg[m]) = "sleep"
    /\ UNCHANGED <<avars, svars, evars, pvars, cvars, owner, gvars, qvars, taskList,
                   taskHistory, currentTask, machineErrorMsg, lpc, lrun,
                   lprocs, lcpc, waitResult, halted, nClears>>

\* the program of AccessorSpec with the acquisitions of the lock as steps of
\* their own, so that the threads are seen waiting for the lock
LockNext ==
    \/ AccessorNext
    \/ \E m \in Machines, th \in Threads : acquire(m, th)
    \/ \E m \in Machines : LWaitSleep(m)

\* a worker thread that is in one of its locked blocks goes on to the end of
\* the block; nothing makes a caller call, a process exit or the worker
\* start its next iteration
LockSpec ==
    /\ AccessorInit /\ [][LockNext]_vars
    /\ \A m \in Machines : WF_vars(LTake(m) \/ LExcept(m))

\* ------------------------------------------------------------------------
\* queue-based engine: the environment maps of two DockerMachine objects
\* ------------------------------------------------------------------------

\* the dictionary a reference points to, as it is now (None for None)
MapOf(ref) == IF ref = NoRef THEN NoEnv ELSE <<env_default>>

\* the (key, value) pairs that _parse_env_text sets for a text
MergedBy(txt) ==
    LET d == parse_env_text(txt, <<>>)
    IN  {<<k, d[k]>> : k \in DOMAIN d}

\* cb(text) of tskGetMachineEnv, called on the worker thread of instance m
\* when its 'env' task has succeeded:
\* self._machine_env = self._parse_env_text(input=text); 'env' is not passed,
\* so the dictionary updated in place and returned is the default of the
\* parameter, evaluated once when the method was defined
tskGetMachineEnv_cb(m, txt) ==
    /\ variant = "queue"
    /\ m \in instances
    /\ env_default' = parse_env_text(txt, env_default)
    /\ machine_env_ref' = [machine_env_ref EXCEPT ![m] = DefaultRef]
    /\ merged' = [merged EXCEPT ![m] = @ \cup MergedBy(txt)]
    /\ UNCHANGED <<env_returned, popen_env, avars, svars, pvars, cvars, owner,
                   gvars, qvars, lvars>>

\* env() of instance m: 'return self._machine_env', the reference itself
QEnv(m) ==
    /\ variant = "queue"
    /\ m \in instances
    /\ env_returned' = [env_returned EXCEPT ![m] = <<machine_env_ref[m]>>]
    /\ UNCHANGED <<env_default, machine_env_ref, popen_env, merged, avars,
                   svars, pvars, cvars, owner, gvars, qvars, lvars>>

\* call(env=self._machine_env) of a task of instance m: Popen(env=env) gives
\* the process the items the dictionary has then; with env=None the process
\* inherits os.environ
Popen(m) ==
    /\ variant = "queue"
    /\ m \in instances
    /\ popen_env' = [popen_env EXCEPT
                       ![m] = IF machine_env_ref[m] = NoRef
                              THEN <<Environ>>
                              ELSE MapOf(machine_env_ref[m])]
    /\ UNCHANGED <<env_default, machine_env_ref, env_returned, merged, avars,
                   svars, pvars, cvars, owner, gvars, qvars, lvars>>

\* a program that constructs two DockerMachine objects of the queue-based
\* engine; of their tasks, the steps that touch the environment map
InstancesInit ==
    /\ variant = "queue"
    /\ taskLimit = 0
    /\ lineLimit = 0
    /\ cbKinds = {"env"}
    /\ instances = Machines
    /\ EngineInit
    /\ PureIdle

InstancesNext ==
    \/ \E m \in Machines, txt \in EnvOutputs : tskGetMachineEnv_cb(m, txt)
    \/ \E m \in Machines : QEnv(m)
    \/ \E m \in Machines : Popen(m)

InstancesSpec == InstancesInit /\ [][InstancesNext]_vars

\* ------------------------------------------------------------------------
\* _reader_thread applied to one line
\* ------------------------------------------------------------------------

\* the sequences over S of at most n elements
BoundedSeq(S, n) == UNION {[1..k -> S] : k \in 0..n}

\* the characters of the lines tried
TextChars == {ESC, CSI, "[", "0", " ", "m"}

\* "\x1b[31mRED\x1b[0m"
RedExample == <<ESC, "[", "3", "1", "m", "R", "E", "D", ESC, "[", "0", "m">>

\* what readline() returns: a line with its line end, or '' at the end of file
ReadlineResults ==
    {l \o <<"\n">> : l \in BoundedSeq(TextChars, MaxTextLen) \cup {RedExample}}
        \cup {<<>>}

\* the reader thread has read 'text' and no engine runs
FormatInit ==
    /\ variant = "format"
    /\ taskLimit = 0
    /\ lineLimit = 0
    /\ cbKinds = {"none"}
    /\ instances = {}
    /\ EngineInit
    /\ text \in ReadlineResults
    /\ pushed = <<>>
    /\ input = <<>>
    /\ env = Environ
    /\ parsed = <<>>

\* _reader_thread: 'if text: self._queue.put(self._format_text(...))'
ReaderPushes ==
    /\ variant = "format"
    /\ pushed = <<>>
    /\ ReaderPush(text) # <<>>
    /\ pushed' = ReaderPush(text)
    /\ UNCHANGED <<avars, gvars, qvars, lvars, svars, evars, cvars, owner, text, input, env,
                   parsed>>

FormatNext == ReaderPushes

FormatSpec == FormatInit /\ [][FormatNext]_vars

\* ------------------------------------------------------------------------
\* _parse_env_text applied to one text and one environment map
\* ------------------------------------------------------------------------

EnvNames == {<<"A">>, <<"H">>}
ValueChars == {"b", "=", " "}
EnvValues == BoundedSeq(ValueChars, MaxValueLen)

\* the line export NAME="VALUE"
ExportLine(n, v) == export \o <<" ">> \o n \o <<"=", "\"">> \o v \o <<"\"">>

ExportLines == {ExportLine(n, v) : n \in EnvNames, v \in EnvValues}

\* lines of other forms: empty, a, #export A="b", A="b"
OtherLines ==
    {<<>>, <<"a">>,
     <<"#">> \o ExportLine(<<"A">>, <<"b">>),
     <<"A", "=", "\"", "b", "\"">>}

\* the texts tried: up to MaxEnvLines lines, joined by line ends
EnvTexts ==
    {join(ls, <<"\n">>) :
        ls \in BoundedSeq(ExportLines \cup OtherLines, MaxEnvLines)}

\* the environment maps tried: os.environ.copy(), with and without the key A
EnvMaps == {Environ, SetItem(Environ, <<"A">>, <<"o">>)}

\* _parse_env_text is about to be called with 'input' and 'env'
EnvInit ==
    /\ variant = "env"
    /\ taskLimit = 0
    /\ lineLimit = 0
    /\ cbKinds = {"none"}
    /\ instances = {}
    /\ EngineInit
    /\ text = <<>>
    /\ pushed = <<>>
    /\ input \in EnvTexts
    /\ env \in EnvMaps
    /\ parsed = <<>>

\* the call: 'output = env' is the dictionary passed in, updated in place
ParsesEnv ==
    /\ variant = "env"
    /\ parsed = <<>>
    /\ parsed' = <<parse_env_text(input, env)>>
    /\ env' = parse_env_text(input, env)
    /\ UNCHANGED <<avars, gvars, qvars, lvars, svars, evars, cvars, owner, text, pushed,
                   input>>

EnvNext == ParsesEnv

EnvSpec == EnvInit /\ [][EnvNext]_vars

\* ------------------------------------------------------------------------
\* properties
\* ------------------------------------------------------------------------

IsPrefix(a, b) == Len(a) <= Len(b) /\ \A i \in 1..Len(a) : a[i] = b[i]

\* tasks whose call() was entered and has neither returned nor raised
InProgress == {t \in Range(started) : outcome[t] = "none"}

\* C1: tasks start executing in the order in which they were enqueued (task ids
\* count the add_task / tsk* calls), in the queue-based and the lock-based engine.
C1_FifoOrder == \A i \in 1..Len(started) : started[i] = i

C1_Witness == variant = "queue" /\ started = <<1, 2, 3>>

\* C2: at most one task is running: when the worker has dequeued a task and
\* is about to call it, the call() of every earlier task has returned or raised.
C2_OneRunning ==
    /\ Cardinality(InProgress) <= 1
    /\ qpc = "spawn" => InProgress = {}
    /\ \A m \in Machines : lpc[m] = "call" => InProgress = {}

C2_Witness ==
    /\ variant = "queue"
    /\ InProgress = {2}
    /\ outcome[1] = "succeeded"
    /\ task_list # <<>>

\* C3: lock-based engine: from a raise of call() until clearErrors(), no task
\* is dequeued: the task list only grows and the history does not change.
C3_HaltsAfterError ==
    [][\A m \in Machines :
          (halted[m] /\ halted'[m]) =>
              (taskHistory' = taskHistory /\ IsPrefix(taskList, taskList'))]_vars

C3_Witness ==
    /\ halted["m1"]
    /\ machineErrorMsg["m1"] = 1
    /\ lpc["m1"] = "loop"
    /\ taskList = <<2, 3>>
    /\ taskHistory = <<1>>

\* wait() of the lock-based engine returns in this step
LWaitReturns(m) == lcpc[m] = "wait" /\ lcpc'[m] = "idle"

\* the worker of machine m is between two calls, with no raise left uncleared
LIdle(m) == m \in instances /\ ~halted[m] /\ lpc[m] \in {"loop", "sleep"}

\* C4: lock-based engine, tasks enqueued in the order A, B, C with B failing:
\* before any clearErrors(), wait() returns None only if nothing is queued and
\* no task has failed; a wait() that returns an error returns one that names
\* the failed task B, the history then is all tasks up to B, every task
\* enqueued after B is still queued and was not executed; once clearErrors()
\* has been called (and is not called again) the worker eventually dequeues
\* and executes the next task.
C4_ErrorScenario ==
    /\ [][\A m \in Machines :
             /\ (LWaitReturns(m) /\ waitResult'[m] = None /\ nClears = 0) =>
                    /\ taskList = <<>>
                    /\ \A t \in 1..nTasks : outcome[t] = "succeeded"
             /\ (LWaitReturns(m) /\ waitResult'[m] # None) =>
                    LET b == waitResult'[m]
                    IN  /\ outcome[b] \in {"failed", "timeout", "spawn"}
                        /\ taskHistory = [i \in 1..b |-> i]
                        /\ taskList = [i \in 1..(nTasks - b) |-> b + i]
                        /\ \A t \in (b + 1)..nTasks : t \notin Range(started)]_vars
    /\ \A m \in Machines, c \in 1..MaxTasks :
          (nClears = MaxClears /\ LIdle(m) /\ taskList # <<>> /\ Head(taskList) = c)
              ~> (c \in Range(started))

C4_Witness ==
    /\ outcome[1] = "succeeded"
    /\ outcome[2] = "failed"
    /\ waitResult["m1"] = 2
    /\ nClears = 1
    /\ started = <<1, 2, 3>>

\* the queue-based worker holds a task it has not marked done
QBusy == qpc \notin {"get", "dead"}

\* queue-based engine: the queue is empty and no task is running
Quiescent == task_list = <<>> /\ ~QBusy

\* C5: queue-based engine: wait() returns only when the queue is empty and no
\* task is running, and a wait() called in such a state returns at once.
C5_WaitQuiescence ==
    [][/\ (cpc = "join" /\ cpc' = "idle") => Quiescent
       /\ (cpc' = "join" /\ Quiescent') => JoinReturns(unfinished_tasks')]_vars

\* C6: queue-based engine: when every dequeued task ends Succeeded, Failed or
\* TimedOut (no Popen failure), a caller blocked in wait() eventually returns,
\* also when a task ended Failed or TimedOut.
C6_WaitReturns == (cpc = "join") ~> (cpc = "idle" \/ error = ErrSpawn)

\* C7: lock-based engine: wait() returns None only when the task list is empty
\* and no task's process is executing; any other return is the latched error.
C7_WaitResult ==
    [][\A m \in Machines :
          LWaitReturns(m) =>
              IF waitResult'[m] = None
              THEN taskList = <<>> /\ lprocs = {}
              ELSE waitResult'[m] = machineErrorMsg[m] /\ halted[m]]_vars

\* positions of the queue-based worker on the success path after the poll
AfterExit == {"finish", "close_stdout", "close_stderr", "drain", "task_done"}

\* C8: queue-based engine: once poll() has reported the exit of the process of
\* a task with allowed_to_fail, whatever the exit code, the task is not an
\* error: call() goes through _finish_output and returns, and the worker marks
\* the task done and goes back to get().
C8_AllowedToFail ==
    /\ [](  (task.allowed_to_fail /\ returncode # NoReturnCode) =>
                /\ qpc \in AfterExit
                /\ error = NoError
                /\ outcome[task.id] = IF qpc = "task_done" THEN "succeeded" ELSE "none")
    /\ [][(qpc = "task_done" /\ qpc' # "task_done") =>
              (qpc' = "get" /\ unfinished_tasks' = unfinished_tasks - 1)]_vars

C8_Witness ==
    /\ task.allowed_to_fail
    /\ returncode = 1
    /\ qpc = "task_done"
    /\ task_list # <<>>

\* the call() of the current task of the queue-based worker has ended
CallEnded == task.id # None /\ outcome[task.id] \in {"succeeded", "failed", "timeout"}

\* C9 as claimed: a task whose process ran longer than the timeout is
\* classified Timeout.
C9_RuntimeOverTimeout ==
    (CallEnded /\ proc.runtime > task.timeout) => outcome[task.id] = "timeout"

\* C9 amended: the poll loop goes on only while the process has not exited and
\* the elapsed time is within the timeout; a task is classified Timeout exactly
\* when its last poll found the process not exited with the elapsed time over
\* the timeout, and by its exit code when a poll found the process exited.
C9_TimeoutAtPoll ==
    /\ qpc = "sleep" => (returncode = NoReturnCode /\ elapsed <= task.timeout)
    /\ CallEnded =>
          /\ outcome[task.id] = "timeout" <=>
                (returncode = NoReturnCode /\ elapsed > task.timeout)
          /\ outcome[task.id] = "succeeded" <=>
                (returncode = 0 \/ (task.allowed_to_fail /\ returncode # NoReturnCode))
          /\ (error = ErrTimeout) <=> (outcome[task.id] = "timeout")
          /\ (error = ErrFailed) <=> (outcome[task.id] = "failed")

C9_Witness ==
    /\ CallEnded
    /\ outcome[task.id] = "timeout"
    /\ error = ErrTimeout
    /\ proc.killed
    /\ proc.runtime = TaskTimeout + 1

\* C10: queue-based engine: call() always ends, also when the process never
\* exits: the poll that finds the process running past the timeout goes on to
\* kill it, then the process has ended before the stdout reader is closed, the
\* stdout reader is closed before the stderr reader, both are closed before
\* the last _process_output, and the timeout error is raised by the step that
\* does this last _process_output.
C10_TimeoutTerminates ==
    /\ (qpc \in InCall) ~> (qpc \in {"task_done", "dead"})
    /\ [](/\ qpc \in {"close_stdout", "close_stderr", "drain"} => proc.state = "exited"
          /\ qpc \in {"close_stderr", "drain"} => closed["stdout"]
          /\ qpc = "drain" => closed["stderr"]
          /\ error = ErrTimeout =>
                (proc.state = "exited" /\ closed["stdout"] /\ closed["stderr"]))
    /\ [][/\ (qpc = "poll" /\ qpc' # "poll" /\ poll = NoReturnCode
                 /\ elapsed > task.timeout) => qpc' = "kill"
          /\ (qpc = "kill" /\ qpc' # "kill") =>
                (qpc' = "finish" /\ proc'.state = "exited")
          /\ (error' = ErrTimeout /\ error # ErrTimeout) =>
                (/\ qpc = "drain"
                 /\ stdout_queue' = Drained.cout
                 /\ stderr_queue' = Drained.cerr)]_vars

C10_Witness ==
    /\ qpc = "dead"
    /\ error = ErrTimeout
    /\ proc.killed
    /\ closed["stdout"] /\ closed["stderr"]

\* C11: queue-based engine: the output_cb of a task is called exactly once when
\* its call() ends Succeeded (exit code 0, or any exit code with
\* allowed_to_fail) and never when it ends Failed or TimedOut (or has not
\* ended); it is called by the worker step that ends call(), with
\* os.linesep.join of the captured lines (which, for the only task of a run,
\* are as many as the lines on the two shared channels), and before
\* task_done() marks the task done.
C11_OutputCallback ==
    /\ [](/\ \A t \in 1..MaxTasks :
                Len(cb_args[t]) =
                    IF callbacks[t] # "none" /\ outcome[t] = "succeeded"
                    THEN 1 ELSE 0
          /\ (taskLimit = 1 /\ task.output_cb # "none") =>
                Len(output) = Len(stdout_queue) + Len(stderr_queue)
          /\ (qpc = "task_done" /\ task.output_cb # "none") =>
                (returncode = 0 \/ task.allowed_to_fail))
    /\ [][/\ \A t \in 1..MaxTasks :
                cb_args'[t] # cb_args[t] =>
                    /\ qpc = "drain" /\ task.id = t
                    /\ cb_args'[t] = <<JoinedOutput(output')>>
          /\ unfinished_tasks' < unfinished_tasks =>
                Len(cb_args[task.id]) =
                    IF task.output_cb # "none" THEN 1 ELSE 0]_vars

C11_Witness ==
    /\ qpc = "task_done"
    /\ task.output_cb # "none"
    /\ task.allowed_to_fail
    /\ returncode = 1
    /\ cb_args[task.id] = << <<"a", "\n", "a">> >>

\* C12: queue-based engine: when call() has ended Succeeded, Failed or
\* TimedOut, wait() was called on the stdout reader and on the stderr reader
\* of the task (their streams are closed).
C12_ReadersClosed ==
    CallEnded => (closed["stdout"] /\ closed["stderr"])

\* the worker does one call of _process_output in this step
ProcessesOutput == qpc \in {"poll", "drain"} /\ qpc' # qpc

\* C13: queue-based engine: one call of _process_output moves every line that
\* is in the two reader queues to the shared channel of its stream (and to the
\* capture buffer of a task with output_cb) and leaves both reader queues
\* empty, whatever the lines are, empty lines included.
C13_DrainsAll ==
    [][ProcessesOutput =>
          /\ rqueue' = NoLines
          /\ stdout_queue' = stdout_queue \o rqueue["stdout"]
          /\ stderr_queue' = stderr_queue \o rqueue["stderr"]
          /\ task.output_cb # "none" =>
                Len(output') = Len(output) + Len(rqueue["stdout"])
                                           + Len(rqueue["stderr"])]_vars

\* what a step may do to the queue rq of a reader, the pipe pp it reads and
\* the shared channel ch of its stream: nothing; the reader appends the oldest
\* line of the pipe to its queue; the oldest k lines of the queue are appended
\* to the channel and removed from the queue; the queue is dropped
KeepsOrder(rq, rq2, pp, pp2, ch, ch2) ==
    \/ rq2 = rq /\ ch2 = ch
    \/ pp # <<>> /\ rq2 = Append(rq, Head(pp)) /\ pp2 = Tail(pp) /\ ch2 = ch
    \/ \E k \in 1..Len(rq) :
          ch2 = ch \o SubSeq(rq, 1, k) /\ rq2 = SubSeq(rq, k + 1, Len(rq))
    \/ rq2 = <<>> /\ ch2 = ch

\* C14: queue-based engine: the lines of a stream reach the shared channel of
\* that stream in the order in which the reader read them: every step only
\* appends the oldest lines of the reader's queue to the end of the channel,
\* removing them from the queue (no reordering, no duplication), over all
\* polls and tasks; no more lines are in the pipes, queues and channels than
\* the processes wrote.
C14_StreamOrder ==
    /\ [][/\ KeepsOrder(rqueue["stdout"], rqueue'["stdout"], pipe["stdout"],
                         pipe'["stdout"], stdout_queue, stdout_queue')
          /\ KeepsOrder(rqueue["stderr"], rqueue'["stderr"], pipe["stderr"],
                        pipe'["stderr"], stderr_queue, stderr_queue')]_vars
    /\ [](Len(stdout_queue) + Len(stderr_queue) + Len(rqueue["stdout"])
            + Len(rqueue["stderr"]) + Len(pipe["stdout"]) + Len(pipe["stderr"])
          <= written)

C14_Witness ==
    /\ stdout_queue = <<"a", "">>
    /\ qpc = "sleep"
    /\ rqueue = NoLines

\* C15: queue-based engine: once wait() of a reader has returned its thread
\* has ended, and no reader thread of a task is alive once the call() of the
\* task has returned or raised (so that never more than the two readers of
\* the running task are alive).
C15_NoLeakedReaders ==
    /\ qpc \in {"close_stderr", "drain"} => ~alive["stdout"]
    /\ qpc = "drain" => ~alive["stderr"]
    /\ CallEnded => (~alive["stdout"] /\ ~alive["stderr"])

\* ansi_escape matches somewhere in s
HasEscape(s) == \E i \in 1..Len(s) : MatchEnd(s, i) > 0

\* b is a with some escape sequences taken out and nothing else changed
RECURSIVE OnlyEscapesRemoved(_, _)
OnlyEscapesRemoved(a, b) ==
    IF a = <<>> THEN b = <<>>
    ELSE \/ /\ b # <<>>
            /\ Head(a) = Head(b)
            /\ OnlyEscapesRemoved(Tail(a), Tail(b))
         \/ /\ MatchEnd(a, 1) > 0
            /\ OnlyEscapesRemoved(SubSeq(a, MatchEnd(a, 1) + 1, Len(a)), b)

\* C16: for every line read, the line the StreamReader pushes contains no
\* ANSI escape sequence (ESC [ or 0x9B, parameter bytes, intermediate bytes,
\* a final byte), is the line read but for escape sequences taken out, and
\* for ESC[31mRED ESC[0m (without the space) is RED.
C16_NoAnsiEscapes ==
    pushed # <<>> =>
        /\ ~HasEscape(pushed[1])
        /\ OnlyEscapesRemoved(strip(text, {"\n"}), pushed[1])
        /\ text = RedExample \o <<"\n">> => pushed[1] = <<"R", "E", "D">>

\* l is a line of the form export NAME="VALUE"
IsExportLine(l) == l \in ExportLines

\* NAME and VALUE of such a line
NameOf(l) == CHOOSE n \in EnvNames : \E v \in EnvValues : l = ExportLine(n, v)
ValueOf(l) == CHOOSE v \in EnvValues : l = ExportLine(NameOf(l), v)

\* d2 is d with NAME -> VALUE set for the lines ls of the form
\* export NAME="VALUE" (the last line of a NAME decides) and nothing else
\* changed
UpdatedByExports(d, ls, d2) ==
    LET Sets(i) == IsExportLine(ls[i])
        Named == {NameOf(ls[i]) : i \in {j \in 1..Len(ls) : Sets(j)}}
        Last(n) == CHOOSE i \in 1..Len(ls) :
                      /\ Sets(i) /\ NameOf(ls[i]) = n
                      /\ \A j \in (i + 1)..Len(ls) :
                            ~(Sets(j) /\ NameOf(ls[j]) = n)
    IN  /\ DOMAIN d2 = DOMAIN d \cup Named
        /\ \A n \in Named : d2[n] = ValueOf(ls[Last(n)])
        /\ \A k \in DOMAIN d \ Named : d2[k] = d[k]

\* C17: for every text and every environment map, _parse_env_text returns
\* the map with NAME -> VALUE set for every line export NAME="VALUE" of the
\* text, whatever VALUE is ('=' included), every other key as it was, and no
\* key set by a line of another form.
C17_ParseEnv ==
    [][parsed' # parsed =>
          UpdatedByExports(env, split(input, "\n"), parsed'[1])]_vars

\* the 'read remote environment' tasks that succeeded before task t started
EnvTasksBefore(t) ==
    {u \in 1..(t - 1) : callbacks[u] = "env" /\ outcome[u] = "succeeded"}

\* the map the callback of the last of them produced from its text, None
\* when there is none
EnvBefore(t) ==
    IF EnvTasksBefore(t) = {} THEN NoEnv
    ELSE LET u == CHOOSE v \in EnvTasksBefore(t) :
                      \A w \in EnvTasksBefore(t) : w <= v
         IN  <<parse_env_text(cb_args[u][1], Environ)>>

\* C18: queue-based engine: the process of a task is spawned with the
\* environment map that the callback of the last 'read remote environment'
\* task that succeeded before it produced, and with None when no such task
\* has succeeded; _machine_env changes only when such a task succeeds (a
\* failed or timed-out one leaves it as it was).
C18_EnvPropagation ==
    /\ [](/\ proc.state # "none" => proc.env = EnvBefore(task.id)
          /\ machine_env = EnvBefore(nTasks + 1))
    /\ [][machine_env' # machine_env =>
              /\ task.output_cb = "env"
              /\ outcome'[task.id] = "succeeded"
              /\ outcome[task.id] = "none"]_vars

C18_Witness ==
    /\ started = <<1, 2>>
    /\ callbacks[1] = "env"
    /\ outcome[1] = "succeeded"
    /\ proc.state = "running"
    /\ proc.env = <<Environ>>

\* C19: lock-based engine, two DockerMachine instances: the worker of an
\* instance dequeues and executes only tasks that were scheduled on that
\* instance, and history() of an instance holds only tasks scheduled on it.
C19_SeparateInstances ==
    \A m \in instances :
        /\ currentTask[m] # None => owner[currentTask[m]] = m
        /\ lrun[m] # None => owner[lrun[m]] = m
        /\ \A i \in 1..Len(history(m)) : owner[history(m)[i]] = m

\* the ids of the tasks waiting in the queue of the queue-based engine
Queued == {task_list[i].id : i \in 1..Len(task_list)}

\* C20: no retry: no task is executed twice; a task whose call() has ended
\* (Succeeded, Failed, TimedOut or by a failing Popen) is in no task queue
\* again, and the task a worker starts has never been started before, also
\* after clearErrors() in the lock-based engine.
C20_NoRetry ==
    /\ [](/\ \A i, j \in 1..Len(started) : i # j => started[i] # started[j]
          /\ \A t \in 1..MaxTasks :
                outcome[t] # "none" => (t \notin Range(taskList) /\ t \notin Queued))
    /\ [][Len(started') > Len(started) =>
              /\ started'[Len(started')] \notin Range(started)
              /\ outcome[started'[Len(started')]] = "none"]_vars

C20_Witness ==
    /\ variant = "lock"
    /\ outcome[1] = "failed"
    /\ nClears = 1
    /\ started = <<1, 2>>
    /\ outcome[2] = "succeeded"
    /\ taskList = <<3>>

\* ------------------------------------------------------------------------
\* lock-based engine: history, latched error, accessors
\* ------------------------------------------------------------------------

\* the task has reached a terminal state
Terminated(t) == outcome[t] \in {"succeeded", "failed", "timeout", "spawn"}

\* C21: in the lock-based engine history() is, in every reachable state, the
\* sequence of the tasks that have reached a terminal state, in execution
\* order: a task is in the history only after it has terminated, every
\* terminated task is in it, and entries are only appended
C21_HistoryOfTerminated ==
    /\ [](variant = "lock" =>
            /\ \A i \in 1..Len(history("m1")) : Terminated(history("m1")[i])
            /\ \A t \in 1..nTasks : Terminated(t) => t \in Range(history("m1")))
    /\ [][variant = "lock" => IsPrefix(history("m1"), history("m1")')]_vars

\* C22: in the lock-based engine the latched error goes from set to cleared
\* only by a clearErrors() call on that machine: no step of the worker, no
\* scheduling call and no wait() clears it
C22_ClearedOnlyByClearErrors ==
    [][\A m \in Machines :
          (machineErrorMsg[m] # None /\ machineErrorMsg'[m] = None)
              => clearErrors(m)]_vars

\* clearErrors() has cleared the error that task 1 latched
C22_Witness ==
    /\ variant = "lock"
    /\ outcome[1] = "failed"
    /\ started = <<1>>
    /\ lpc["m1"] \in {"sleep", "loop"}
    /\ nClears = 1
    /\ machineErrorMsg["m1"] = None
    /\ currentTask["m1"] = None

\* C23: lock-based engine: what env() returned is a snapshot: the items of
\* the returned map are, in every later state, the items it had when env()
\* returned, whatever tasks and callbacks complete afterwards
C23_EnvSnapshot ==
    \A m \in Machines :
        envResult[m] # <<>> => Items(envResult[m][1].ref) = envResult[m][1].items

\* the task whose list of callback calls has grown in this step
Called(t) == Len(cbLog'[t]) > Len(cbLog[t])

\* C24: lock-based engine: for every dequeued task the task callback is
\* called with state='start' before the task's process is spawned, then with
\* exactly one of 'success' and 'error' once the process has ended (every
\* call names the task), and final=True is passed only for the task that is
\* the last one scheduled
C24_TaskCallbackProtocol ==
    /\ [](variant = "lock" =>
            /\ cbLog[None] = <<>>
            /\ \A t \in 1..nTasks :
                  /\ Len(cbLog[t]) <= 2
                  /\ t \in Range(started) =>
                        (cbLog[t] # <<>> /\ cbLog[t][1].state = "start")
                  /\ Len(cbLog[t]) = 2 =>
                        cbLog[t][2].state \in {"success", "error"}
                  /\ (Terminated(t) /\ lpc[owner[t]] \in {"sleep", "loop", "dead"})
                        => Len(cbLog[t]) = 2)
    /\ [][\A t \in 1..MaxTasks : Called(t) =>
            LET e == cbLog'[t][Len(cbLog'[t])]
            IN  /\ e.state = "start" => t \notin Range(started)
                /\ e.state \in {"success", "error"} =>
                      (t \in Range(started) /\ t \notin lprocs)
                /\ e.final => t = nTasks]_vars

\* ------------------------------------------------------------------------
\* queue-based engine: output and errors
\* ------------------------------------------------------------------------

\* busy(), which the drain loop of test_api.py calls: the queue is not empty
\* or a task is running
busy == task_list # <<>> \/ qpc \notin {"get", "dead"}

\* C25: queue-based engine: every line a task's process wrote is on the
\* shared channels before the task is marked done; so when the controller is
\* not busy (queue empty, no task running) the channels hold every line
\* written, and no line is appended while it stays not busy and no task is
\* added
C25_AllOutputSeen ==
    /\ [](variant = "queue" =>
            /\ qpc = "task_done" => (pipe = NoLines /\ rqueue = NoLines)
            /\ ~busy => Len(stdout_queue) + Len(stderr_queue) = written)
    /\ [][(variant = "queue" /\ ~busy /\ nTasks' = nTasks) =>
             (stdout_queue' = stdout_queue /\ stderr_queue' = stderr_queue)]_vars

\* C26: queue-based engine: an error raised for a task carries the task; for
\* a Failed task the non-zero exit code is recorded in the task and every
\* stderr line the process wrote before it exited has been forwarded to the
\* stderr channel
C26_ErrorCarriesStderr ==
    variant = "queue" =>
        /\ error \in {ErrFailed, ErrTimeout} => task.id # None
        /\ error = ErrFailed =>
              /\ returncode \notin {NoReturnCode, 0}
              /\ returncode = proc.code
              /\ pipe["stderr"] = <<>>
              /\ rqueue["stderr"] = <<>>

\* the call() of the current task of machine m ended because Popen raised,
\* and clearErrors() has not been called since
SpawnFailed(m) ==
    halted[m] /\ currentTask[m] # None /\ outcome[currentTask[m]] = "spawn"

\* the error of a task that could not be launched was latched and reported
\* to the task callback
SpawnReported == \E t \in 1..MaxTasks : outcome[t] = "spawn" /\ Len(cbLog[t]) = 2

\* C27: lock-based engine: a task whose process cannot be launched is handled
\* like any other error: the error is latched naming the task (unless
\* clearErrors() comes first), while it is latched the worker dequeues
\* nothing, and once clearErrors() has cleared it the worker goes on and
\* dequeues the task at the head of the list
C27_SpawnFailureLatched ==
    /\ SpawnFailed("m1") ~> (machineErrorMsg["m1"] # None \/ ~halted["m1"])
    /\ [](SpawnFailed("m1") => machineErrorMsg["m1"] \in {None, currentTask["m1"]})
    /\ [][(SpawnFailed("m1") /\ machineErrorMsg["m1"] # None
              /\ machineErrorMsg'["m1"] = machineErrorMsg["m1"])
              => /\ IsPrefix(taskList, taskList')
                 /\ taskHistory' = taskHistory
                 /\ started' = started]_vars
    /\ [][(lpc["m1"] = "loop" /\ lpc'["m1"] = "start")
              => currentTask'["m1"] = Head(taskList)]_vars
    /\ (SpawnReported /\ nClears = MaxClears /\ LIdle("m1") /\ taskList # <<>>)
          ~> (lpc["m1"] = "start")

\* the first task could not be launched, the error was latched and reported
\* to the callback, clearErrors() was called and the second task was started
C27_Witness ==
    /\ variant = "lock"
    /\ outcome[1] = "spawn"
    /\ Len(cbLog[1]) = 2
    /\ cbLog[1][2].state = "error"
    /\ nClears = 1
    /\ machineErrorMsg["m1"] = None
    /\ started = <<1, 2>>

\* C28: lock-based engine: when a task's process exceeds the timeout it is
\* killed and its output collected before the error reaches the worker: when
\* the error of a timed-out task is latched, its process is not running
C28_TimedOutProcessKilled ==
    variant = "lock" =>
        \A m \in Machines :
            (machineErrorMsg[m] # None /\ outcome[machineErrorMsg[m]] = "timeout")
                => machineErrorMsg[m] \notin lprocs

\* a task of the queue-based engine has ended Failed or TimedOut
SomeTaskFailed == \E t \in 1..MaxTasks : outcome[t] \in {"failed", "timeout"}

\* C29: queue-based engine: after the first task that ends Failed or TimedOut
\* the worker thread has terminated: no task is dequeued or started again,
\* task_done is never called for the failed task (the count of unfinished
\* tasks stays above the number of queued tasks), the queued tasks stay
\* queued, and add_task still accepts tasks
C29_WorkerEndsAfterFailure ==
    /\ [](variant = "queue" /\ SomeTaskFailed =>
            /\ qpc = "dead"
            /\ task.id # None /\ outcome[task.id] \in {"failed", "timeout"}
            /\ unfinished_tasks = Len(task_list) + 1
            /\ nTasks < taskLimit =>
                  ENABLED (\E a \in BOOLEAN, cb \in cbKinds :
                              add_task(a, TaskTimeout, cb)))
    /\ [][(variant = "queue" /\ SomeTaskFailed) =>
            /\ started' = started
            /\ outcome' = outcome
            /\ task' = task
            /\ IsPrefix(task_list, task_list')]_vars

\* the first task failed, two tasks are queued behind it and wait() is blocked
C29_Witness ==
    /\ variant = "queue"
    /\ outcome[1] = "failed"
    /\ qpc = "dead"
    /\ Len(task_list) = 2
    /\ unfinished_tasks = 3
    /\ cpc = "join"

\* C30: queue-based engine: allowed_to_fail does not cover timeouts: a task,
\* allowed to fail or not, whose process is still running at a poll after the
\* timeout is killed; its call() ends with the timeout error, which ends the
\* worker, and its output_cb is not called
C30_TimeoutDespiteAllowed ==
    /\ [][(variant = "queue" /\ qpc = "poll" /\ qpc' # "poll"
             /\ proc.state = "running" /\ elapsed > task.timeout)
            => (qpc' = "kill" /\ returncode' = NoReturnCode)]_vars
    /\ [][(variant = "queue" /\ qpc = "kill" /\ qpc' # "kill")
            => (proc'.state = "exited" /\ (proc.state = "running" => proc'.killed))]_vars
    /\ [](variant = "queue" =>
            /\ (qpc \in {"finish", "close_stdout", "close_stderr", "drain"}
                  /\ returncode = NoReturnCode) => outcome[task.id] = "none"
            /\ \A t \in 1..MaxTasks : outcome[t] = "timeout" =>
                  /\ task.id = t
                  /\ qpc = "dead"
                  /\ error = ErrTimeout
                  /\ proc.state = "exited"
                  /\ cb_args[t] = <<>>)
    /\ [][(variant = "queue" /\ qpc = "drain" /\ qpc' # "drain"
             /\ returncode = NoReturnCode)
            => outcome'[task.id] = "timeout"]_vars

\* a task that is allowed to fail and has an output_cb was killed on timeout
C30_Witness ==
    /\ variant = "queue"
    /\ task.allowed_to_fail
    /\ task.output_cb = "env"
    /\ outcome[task.id] = "timeout"
    /\ proc.killed
    /\ error = ErrTimeout
    /\ cb_args[task.id] = <<>>

\* no line of q is the empty line
NonEmpty(q) == \A i \in 1..Len(q) : q[i] # ""

\* C31: queue-based engine: when the call() of a task ends Succeeded, every
\* line its process wrote to stdout and stderr is on the shared channels and,
\* for a task with output_cb, in the text given to the callback, however the
\* process, the two readers and the poll loop interleave: closing the
\* readers discards no line that was written and not yet read. (Stated for
\* the first task of a run, so that the lines written are its lines, and for
\* the runs without empty lines, which _process_output handles differently.)
C31_NoLineLostAtClose ==
    [][(/\ variant = "queue"
        /\ qpc = "drain"
        /\ task.id = 1
        /\ outcome'[1] = "succeeded"
        /\ NonEmpty(stdout_queue') /\ NonEmpty(stderr_queue'))
       => /\ Len(stdout_queue') + Len(stderr_queue') = written
          /\ task.output_cb # "none" =>
                /\ Len(output') = written
                /\ cb_args'[1] = <<JoinedOutput(output')>>]_vars

\* the worker of m is executing a task: it is in the user callback, in call()
\* with the task's process running, or in the task's callback
Executing(m) ==
    lrun[m] # None \/ lpc[m] \in {"start", "call", "communicate", "success", "error"}

OwnEntries(m, d) ==
    \A k \in DOMAIN d :
        \/ k \in DOMAIN Environ /\ d[k] = Environ[k]
        \/ <<k, d[k]>> \in merged[m]

\* C33: queue-based engine: the environment map of an instance holds only
\* the variables of os.environ and those merged by the instance's own env
\* tasks: no variable merged by the env task of another instance is in the
\* map env() returned, nor in the environment given to a process of the
\* instance.
C33_EnvIndependent ==
    \A m \in instances :
        /\ (env_returned[m] # <<>> /\ env_returned[m][1] # NoRef) =>
              OwnEntries(m, MapOf(env_returned[m][1])[1])
        /\ popen_env[m] # <<>> => OwnEntries(m, popen_env[m][1])

====
